---- MODULE Spec2Model ----
(***************************************************************************)
(* GraphSelectionMapper (typeorm-graph-select): the static methods of      *)
(* src/classes/GraphSelectionMapper.ts as operators over strings, and one  *)
(* action per public method called on an input field map.                  *)
(*                                                                         *)
(* A string is a sequence of one-character strings; positions are 0-based  *)
(* in the operators that model String.prototype methods, as in JavaScript. *)
(***************************************************************************)
EXTENDS Integers, Sequences, FiniteSets, TLC

\* ------------------------------------------------------------ bounds
MaxLen == 2        \* longest input field map
NumTokens == 2     \* distinct outcomes of the alias generator
MaxLenTwo == 2     \* longest field map compiled twice

\* ------------------------------------------------------------ strings
Dot == "."

\* The identifiers paths are made of.
Idents == {<<"a">>, <<"b">>}

\* The characters alias tokens are drawn from.
TokenAlphabet == <<"x", "y", "z", "w">>

\* s.substr(from, count), 0-based
Substr(s, from, count) == SubSeq(s, from + 1, from + count)

\* does t occur in s at 0-based position i
OccursAt(s, t, i) ==
    /\ i >= 0
    /\ i + Len(t) <= Len(s)
    /\ \A k \in 1..Len(t) : s[i + k] = t[k]

RECURSIVE IndexOfFrom(_, _, _)
IndexOfFrom(s, t, i) ==
    IF i + Len(t) > Len(s) THEN -1
    ELSE IF OccursAt(s, t, i) THEN i
    ELSE IndexOfFrom(s, t, i + 1)

\* s.indexOf(t): position of the first occurrence, -1 if none
IndexOf(s, t) == IndexOfFrom(s, t, 0)

RECURSIVE LastIndexOfFrom(_, _, _)
LastIndexOfFrom(s, t, i) ==
    IF i < 0 THEN -1
    ELSE IF OccursAt(s, t, i) THEN i
    ELSE LastIndexOfFrom(s, t, i - 1)

\* s.lastIndexOf(t): position of the last occurrence, -1 if none
LastIndexOf(s, t) == LastIndexOfFrom(s, t, Len(s) - Len(t))

\* mutant: replaces the last occurrence
ReplaceLast(s, pattern, replacement) ==
    LET i == LastIndexOf(s, pattern)
    IN IF i = -1 THEN s
       ELSE SubSeq(s, 1, i) \o replacement \o SubSeq(s, i + Len(pattern) + 1, Len(s))

\* s.replace(pattern, replacement) with a string pattern: the first
\* occurrence only (replacements are alphanumeric, no $ patterns)
Replace(s, pattern, replacement) ==
    LET i == IndexOf(s, pattern)
    IN IF i = -1 THEN s
       ELSE SubSeq(s, 1, i) \o replacement \o SubSeq(s, i + Len(pattern) + 1, Len(s))

\* ------------------------------------------------------------ inputs
RECURSIVE PathsOfDepth(_)
PathsOfDepth(d) ==
    IF d = 1 THEN Idents
    ELSE {p \o <<Dot>> \o seg : p \in PathsOfDepth(d - 1), seg \in Idents}

\* dot-delimited sequences of one, two or three identifiers
Paths == PathsOfDepth(1) \cup PathsOfDepth(2) \cup PathsOfDepth(3)

FieldMaps(n) == UNION {[1..k -> Paths] : k \in 0..n}

\* ------------------------------------------------------------ arrays
RECURSIVE ArrayIndexOfFrom(_, _, _)
ArrayIndexOfFrom(arr, x, i) ==
    IF i > Len(arr) THEN -1
    ELSE IF arr[i] = x THEN i - 1
    ELSE ArrayIndexOfFrom(arr, x, i + 1)

\* arr.indexOf(x), 0-based, -1 if absent
ArrayIndexOf(arr, x) == ArrayIndexOfFrom(arr, x, 1)

\* ------------------------------------------------------------ sanitizeFieldMap
\* The copy `map` is the pair (vals, deleted): `delete map[key]` leaves a
\* hole at key, and forEach and filter skip holes.

\* inner forEach of the callback for (field, key), from otherKey on
RECURSIVE SanitizeInner(_, _, _, _)
SanitizeInner(vals, deleted, key, otherKey) ==
    IF otherKey > Len(vals) THEN deleted
    ELSE IF otherKey \in deleted THEN SanitizeInner(vals, deleted, key, otherKey + 1)
    ELSE IF otherKey = key THEN SanitizeInner(vals, deleted, key, otherKey + 1)
    ELSE IF IndexOf(vals[otherKey], vals[key]) # -1
         THEN SanitizeInner(vals, deleted \cup {key}, key, otherKey + 1)
    ELSE SanitizeInner(vals, deleted, key, otherKey + 1)

\* outer forEach, from key on
RECURSIVE SanitizeOuter(_, _, _)
SanitizeOuter(vals, deleted, key) ==
    IF key > Len(vals) THEN deleted
    ELSE IF key \in deleted THEN SanitizeOuter(vals, deleted, key + 1)
    ELSE SanitizeOuter(vals, SanitizeInner(vals, deleted, key, 1), key + 1)

\* map.filter(field => field != null), from key on
RECURSIVE FilterHoles(_, _, _)
FilterHoles(vals, deleted, key) ==
    IF key > Len(vals) THEN <<>>
    ELSE IF key \in deleted THEN FilterHoles(vals, deleted, key + 1)
    ELSE <<vals[key]>> \o FilterHoles(vals, deleted, key + 1)

\* mutant: the inner loop compares with deleted elements too
sanitizeFieldMapSeesHoles(fm) ==
    FilterHoles(fm, {key \in 1..Len(fm) :
                        \E otherKey \in 1..Len(fm) :
                            otherKey # key /\ IndexOf(fm[otherKey], fm[key]) # -1}, 1)

sanitizeFieldMap(fm) == FilterHoles(fm, SanitizeOuter(fm, {}, 1), 1)

\* ------------------------------------------------------------ getRelationMap
\* fieldMap.filter(field => field.indexOf('.') !== -1)
RECURSIVE FilterDotted(_)
FilterDotted(fm) ==
    IF fm = <<>> THEN <<>>
    ELSE IF IndexOf(Head(fm), <<Dot>>) # -1
         THEN <<Head(fm)>> \o FilterDotted(Tail(fm))
    ELSE FilterDotted(Tail(fm))

\* mutant: cuts at the first '.'
RelationOfFirstDot(field) == Substr(field, 0, IndexOf(field, <<Dot>>))

\* field.substr(0, field.lastIndexOf('.'))
RelationOf(field) == Substr(field, 0, LastIndexOf(field, <<Dot>>))

\* the forEach over the filtered fields, `map` being the array built so far
RECURSIVE RelationLoop(_, _)
RelationLoop(fields, map) ==
    IF fields = <<>> THEN map
    ELSE LET relation == RelationOf(Head(fields))
         IN IF ArrayIndexOf(map, relation) = -1
            THEN RelationLoop(Tail(fields), Append(map, relation))
            ELSE RelationLoop(Tail(fields), map)

getRelationMap(fm) == RelationLoop(FilterDotted(fm), <<>>)

\* ------------------------------------------------------------ UniqueRelationMap
\* A JavaScript object with string keys that are not array indices:
\* Object.keys enumerates in insertion order. keys is that order, at the
\* bindings.
EmptyUrm == [keys |-> <<>>, at |-> <<>>]

HasKey(urm, k) == \E i \in 1..Len(urm.keys) : urm.keys[i] = k

\* urm[k]
Binding(urm, k) == urm.at[CHOOSE i \in 1..Len(urm.keys) : urm.keys[i] = k]

\* mutant: a new key is enumerated first
UrmSetFront(urm, k, b) ==
    IF HasKey(urm, k)
    THEN [urm EXCEPT !.at[CHOOSE i \in 1..Len(urm.keys) : urm.keys[i] = k] = b]
    ELSE [keys |-> <<k>> \o urm.keys, at |-> <<b>> \o urm.at]

\* mutant: a binding replaces the binding that has its uniqueAlias
UrmSetByAlias(urm, k, b) ==
    IF \E i \in 1..Len(urm.at) : urm.at[i].uniqueAlias = b.uniqueAlias
    THEN LET i == CHOOSE n \in 1..Len(urm.at) : urm.at[n].uniqueAlias = b.uniqueAlias
         IN [keys |-> [urm.keys EXCEPT ![i] = k], at |-> [urm.at EXCEPT ![i] = b]]
    ELSE [keys |-> Append(urm.keys, k), at |-> Append(urm.at, b)]

\* urm[k] = b
UrmSet(urm, k, b) ==
    IF HasKey(urm, k)
    THEN [urm EXCEPT !.at[CHOOSE i \in 1..Len(urm.keys) : urm.keys[i] = k] = b]
    ELSE [keys |-> Append(urm.keys, k), at |-> Append(urm.at, b)]

\* the forEach over Object.keys(urm) in getAliasedTargetRelation, from key i on
RECURSIVE AliasLoop(_, _, _, _, _)
AliasLoop(urm, targetRelation, prefix, targetRel, i) ==
    IF i > Len(urm.keys) THEN targetRel
    ELSE IF urm.keys[i] = prefix
         THEN AliasLoop(urm, targetRelation, prefix,
                        Replace(targetRelation, prefix, urm.at[i].uniqueAlias), i + 1)
    ELSE AliasLoop(urm, targetRelation, prefix, targetRel, i + 1)

getAliasedTargetRelation(urm, targetRelation) ==
    IF IndexOf(targetRelation, <<Dot>>) = -1 THEN targetRelation
    ELSE LET prefix == Substr(targetRelation, 0, LastIndexOf(targetRelation, <<Dot>>))
             targetRel == AliasLoop(urm, targetRelation, prefix, <<>>, 1)
         IN IF targetRel = <<>> THEN targetRelation ELSE targetRel

\* relationMap.forEach(...), from relation i on; ids[i] is what the i-th
\* call of makeId returns
RECURSIVE ResolveLoop(_, _, _, _)
ResolveLoop(relationMap, ids, urm, i) ==
    IF i > Len(relationMap) THEN urm
    ELSE LET targetRelation == relationMap[i]
             aliasedTargetRelation == getAliasedTargetRelation(urm, targetRelation)
             uniqueAlias == ids[i]
         IN ResolveLoop(relationMap, ids,
                UrmSet(urm, targetRelation,
                       [targetRelation |-> targetRelation,
                        aliasedTargetRelation |-> aliasedTargetRelation,
                        uniqueAlias |-> uniqueAlias]),
                i + 1)

getUniqueRelationMap(fm, ids) == ResolveLoop(getRelationMap(fm), ids, EmptyUrm, 1)

\* ------------------------------------------------------------ query builder
\* A call made on the SelectQueryBuilder.
JoinCall(target, uniqueAlias) ==
    [method |-> "leftJoinAndSelect", target |-> target, alias |-> uniqueAlias,
     selection |-> <<>>]

SelectCall(selection) ==
    [method |-> "select", target |-> <<>>, alias |-> <<>>, selection |-> selection]

\* Object.keys(urm).forEach(...) of joinRelationsToQuery, from key i on:
\* the leftJoinAndSelect calls it makes
RECURSIVE JoinLoop(_, _, _)
JoinLoop(urm, qalias, i) ==
    IF i > Len(urm.keys) THEN <<>>
    ELSE LET relation == urm.keys[i]
         IN (IF IndexOf(relation, <<Dot>>) = -1
             THEN <<JoinCall(qalias \o urm.at[i].targetRelation, urm.at[i].uniqueAlias)>>
             ELSE <<JoinCall(urm.at[i].aliasedTargetRelation, urm.at[i].uniqueAlias)>>)
            \o JoinLoop(urm, qalias, i + 1)

joinRelationsToQuery(urm, qalias) == JoinLoop(urm, qalias, 1)

\* Object.keys(urm).forEach(...) of the map callback, from key i on
RECURSIVE RewriteLoop(_, _, _, _)
RewriteLoop(field, urm, uf, i) ==
    IF i > Len(urm.keys) THEN uf
    ELSE IF IndexOf(field, urm.keys[i]) # -1
         THEN RewriteLoop(field, urm, Replace(field, urm.keys[i], urm.at[i].uniqueAlias), i + 1)
    ELSE RewriteLoop(field, urm, uf, i + 1)

\* the callback of fieldMap.map in assignSelectionToQuery
SelectField(field, urm, qalias) ==
    LET uf == RewriteLoop(field, urm, field, 1)
    IN IF IndexOf(uf, <<Dot>>) = -1 THEN qalias \o <<Dot>> \o uf ELSE uf

\* the select call assignSelectionToQuery makes
assignSelectionToQuery(fm, urm, qalias) ==
    <<SelectCall([i \in 1..Len(fm) |-> SelectField(fm[i], urm, qalias)])>>

\* ------------------------------------------------------------ makeId
\* UniqueIdGenerator.makeId(length): a random alphanumeric token of that
\* length, drawn afresh on every call.
IdLength == 5

makeIdOutcomes(length) ==
    {[i \in 1..length |-> TokenAlphabet[j]] : j \in 1..NumTokens}

\* ------------------------------------------------------------ state
VARIABLES
    fieldMap,           \* the argument of the call
    queryAlias,         \* query.alias
    op,                 \* the method that was called, "none" before
    sanitized,          \* what sanitizeFieldMap returned (mapGraph: effectiveFieldMap)
    relationMap,        \* what getRelationMap returned
    urm,                \* what getUniqueRelationMap / mapGraph returned
    calls,              \* the calls made on the query builder, in order
    runs,               \* compilations of fieldMap so far
    urm2                \* what the second compilation returned

vars == <<fieldMap, queryAlias, op, sanitized, relationMap, urm, calls, runs, urm2>>

QueryAliases == {<<"q">>, <<"a">>}

InitWith(n) ==
    /\ fieldMap \in FieldMaps(n)
    /\ queryAlias \in QueryAliases
    /\ op = "none"
    /\ sanitized = <<>>
    /\ relationMap = <<>>
    /\ urm = EmptyUrm
    /\ calls = <<>>
    /\ runs = 0
    /\ urm2 = EmptyUrm

Init == InitWith(MaxLen)

SanitizeFieldMap ==
    /\ op = "none"
    /\ op' = "sanitizeFieldMap"
    /\ sanitized' = sanitizeFieldMap(fieldMap)
    /\ runs' = 1
    /\ UNCHANGED <<fieldMap, queryAlias, relationMap, urm, calls, urm2>>

GetRelationMap ==
    /\ op = "none"
    /\ op' = "getRelationMap"
    /\ relationMap' = getRelationMap(fieldMap)
    /\ runs' = 1
    /\ UNCHANGED <<fieldMap, queryAlias, sanitized, urm, calls, urm2>>

\* the outcomes of the makeId calls of one getUniqueRelationMap(fm)
IdOutcomes(fm) == [1..Len(getRelationMap(fm)) -> makeIdOutcomes(IdLength)]

GetUniqueRelationMap ==
    /\ op = "none"
    /\ op' = "getUniqueRelationMap"
    /\ \E ids \in IdOutcomes(fieldMap) :
           urm' = getUniqueRelationMap(fieldMap, ids)
    /\ relationMap' = getRelationMap(fieldMap)
    /\ runs' = 1
    /\ UNCHANGED <<fieldMap, queryAlias, sanitized, calls, urm2>>

\* mutant: the selection is assigned before the relations are joined
mapGraphSelectsFirst(fm, qalias, ids) ==
    LET effectiveFieldMap == sanitizeFieldMap(fm)
        u == getUniqueRelationMap(effectiveFieldMap, ids)
    IN [urm |-> u,
        calls |-> assignSelectionToQuery(effectiveFieldMap, u, qalias)
                  \o joinRelationsToQuery(u, qalias)]

\* mapGraph(fm, query, entity) with ids the outcomes of its makeId calls:
\* the map it returns and the calls it makes on query
mapGraph(fm, qalias, ids) ==
    LET effectiveFieldMap == sanitizeFieldMap(fm)
        u == getUniqueRelationMap(effectiveFieldMap, ids)
    IN [urm |-> u,
        calls |-> joinRelationsToQuery(u, qalias)
                  \o assignSelectionToQuery(effectiveFieldMap, u, qalias)]

MapGraph ==
    /\ op = "none"
    /\ op' = "mapGraph"
    /\ sanitized' = sanitizeFieldMap(fieldMap)
    /\ relationMap' = getRelationMap(sanitized')
    /\ \E ids \in IdOutcomes(sanitizeFieldMap(fieldMap)) :
           LET r == mapGraph(fieldMap, queryAlias, ids)
           IN /\ urm' = r.urm
              /\ calls' = calls \o r.calls
    /\ runs' = 1
    /\ UNCHANGED <<fieldMap, queryAlias, urm2>>

Next == SanitizeFieldMap \/ GetRelationMap \/ GetUniqueRelationMap \/ MapGraph

Spec == Init /\ [][Next]_vars

\* ------------------------------------------------------------ two compilations
\* getUniqueRelationMap called twice on the same field map. mapGraph returns
\* getUniqueRelationMap(sanitizeFieldMap(fieldMap)), and every sanitized list
\* is itself one of the field maps drawn here.
InitTwo == InitWith(MaxLenTwo) /\ queryAlias = <<"q">>

GetUniqueRelationMapAgain ==
    /\ op = "getUniqueRelationMap"
    /\ runs = 1
    /\ runs' = 2
    /\ \E ids \in IdOutcomes(fieldMap) :
           urm2' = getUniqueRelationMap(fieldMap, ids)
    /\ UNCHANGED <<fieldMap, queryAlias, op, sanitized, relationMap, urm, calls>>

NextTwo == GetUniqueRelationMap \/ GetUniqueRelationMapAgain

SpecTwo == InitTwo /\ [][NextTwo]_vars

\* ------------------------------------------------------------ vocabulary of the properties
\* Stated on the characters of a path, independently of the operators above.
HasDot(p) == \E i \in 1..Len(p) : p[i] = Dot

\* t is a literal substring of s
IsSubstring(t, s) == \E i \in 0..(Len(s) - Len(t)) : SubSeq(s, i + 1, i + Len(t)) = t

\* r followed by '.' starts p: r is a proper dot-delimited prefix of p
IsRelationPrefix(r, p) ==
    /\ Len(r) < Len(p)
    /\ SubSeq(p, 1, Len(r)) = r
    /\ p[Len(r) + 1] = Dot

LastDot(p) == CHOOSE i \in 1..Len(p) : p[i] = Dot /\ \A j \in (i + 1)..Len(p) : p[j] # Dot

\* p minus its final segment, and that segment, for a path with a '.'
ParentOf(p) == SubSeq(p, 1, LastDot(p) - 1)
LastSegment(p) == SubSeq(p, LastDot(p) + 1, Len(p))

Range(seq) == {seq[i] : i \in 1..Len(seq)}

NoDuplicates(seq) == \A i, j \in 1..Len(seq) : seq[i] = seq[j] => i = j

\* sub is seq with some elements left out
IsSubsequence(sub, seq) ==
    \E f \in [1..Len(sub) -> 1..Len(seq)] :
        /\ \A i \in 1..Len(sub) : sub[i] = seq[f[i]]
        /\ \A i, j \in 1..Len(sub) : i < j => f[i] < f[j]

\* the field map the relation map and the bindings were built from
BuiltFrom == IF op = "mapGraph" THEN sanitized ELSE fieldMap

\* ------------------------------------------------------------ C1
\* C1: sanitizeFieldMap returns a subsequence of its input without
\* duplicates, and a path P is in the output if and only if no path Q of the
\* input, different from P, has P as a literal substring.
C1_SanitizeContract ==
    op \in {"sanitizeFieldMap", "mapGraph"} =>
        /\ IsSubsequence(sanitized, fieldMap)
        /\ NoDuplicates(sanitized)
        /\ \A P \in Range(fieldMap) :
               P \in Range(sanitized)
                   <=> ~ \E Q \in Range(fieldMap) : Q # P /\ IsSubstring(P, Q)

\* sanitizeFieldMap dropped a relation prefix and kept the longer path
C1_Witness_PrefixDropped ==
    /\ op = "sanitizeFieldMap"
    /\ Len(fieldMap) = 2
    /\ Len(sanitized) = 1
    /\ fieldMap[1] # fieldMap[2]
    /\ IsRelationPrefix(fieldMap[1], fieldMap[2])
    /\ sanitized[1] = fieldMap[2]

\* ------------------------------------------------------------ C2
\* C2: getRelationMap returns, without duplicates and in first-seen order,
\* the paths before the last '.' of the input paths that have a '.'; an
\* input path is in the result only as the prefix of another input path.
FirstSeen(fm, r) ==
    CHOOSE k \in 1..Len(fm) :
        /\ HasDot(fm[k]) /\ ParentOf(fm[k]) = r
        /\ \A j \in 1..(k - 1) : ~ (HasDot(fm[j]) /\ ParentOf(fm[j]) = r)

RelationMapOf(fm, rm) ==
    /\ NoDuplicates(rm)
    /\ Range(rm) = {ParentOf(p) : p \in {q \in Range(fm) : HasDot(q)}}
    /\ \A i, j \in 1..Len(rm) : i < j => FirstSeen(fm, rm[i]) < FirstSeen(fm, rm[j])
    /\ \A p \in Range(fm) :
           p \in Range(rm) => \E q \in Range(fm) : IsRelationPrefix(p, q)

C4_AliasChaining ==
    op \in {"getUniqueRelationMap", "mapGraph"} =>
        \A i \in 1..Len(urm.keys) :
            LET R == urm.keys[i]
            IN urm.at[i].aliasedTargetRelation =
                   IF HasDot(R) /\ HasKey(urm, ParentOf(R))
                   THEN Binding(urm, ParentOf(R)).uniqueAlias \o <<Dot>> \o LastSegment(R)
                   ELSE R

\* ------------------------------------------------------------ C5
\* C5: within one compilation the uniqueAlias values of the bindings are
\* pairwise distinct, whatever the alias generator returns.
C5_AliasesDistinct ==
    op \in {"getUniqueRelationMap", "mapGraph"} =>
        \A i, j \in 1..Len(urm.at) :
            urm.at[i].uniqueAlias = urm.at[j].uniqueAlias => i = j

\* ------------------------------------------------------------ C6
\* C6: after mapGraph, every proper dot-delimited prefix of every sanitized
\* path is a key of the returned map and has a leftJoinAndSelect call.
RelationPrefixes(p) == {SubSeq(p, 1, i - 1) : i \in {k \in 1..Len(p) : p[k] = Dot}}

C6_EveryHopJoined ==
    op = "mapGraph" =>
        \A p \in Range(sanitized) : \A r \in RelationPrefixes(p) :
            /\ HasKey(urm, r)
            /\ \E c \in 1..Len(calls) :
                   /\ calls[c].method = "leftJoinAndSelect"
                   /\ calls[c].alias = Binding(urm, r).uniqueAlias

\* ------------------------------------------------------------ C7
\* C7: the list passed to select has one entry per sanitized path, in
\* order: the path with the first occurrence of the last map key that
\* occurs in it replaced by that key's uniqueAlias (unchanged if no key
\* occurs), prefixed by the root alias and '.' exactly when the result has
\* no '.'.
MatchingKeys(field, u) == {i \in 1..Len(u.keys) : IsSubstring(u.keys[i], field)}

Maximum(S) == CHOOSE m \in S : \A n \in S : n <= m

FirstOccurrence(t, s) ==
    CHOOSE i \in 0..(Len(s) - Len(t)) :
        /\ SubSeq(s, i + 1, i + Len(t)) = t
        /\ \A j \in 0..(i - 1) : SubSeq(s, j + 1, j + Len(t)) # t

Rewritten(field, u) ==
    IF MatchingKeys(field, u) = {} THEN field
    ELSE LET k == Maximum(MatchingKeys(field, u))
             at == FirstOccurrence(u.keys[k], field)
         IN SubSeq(field, 1, at) \o u.at[k].uniqueAlias
                \o SubSeq(field, at + Len(u.keys[k]) + 1, Len(field))

Projected(field, u, qalias) ==
    IF HasDot(Rewritten(field, u)) THEN Rewritten(field, u)
    ELSE qalias \o <<Dot>> \o Rewritten(field, u)

SelectCalls == {c \in 1..Len(calls) : calls[c].method = "select"}

C7_Projection ==
    op = "mapGraph" =>
        /\ Cardinality(SelectCalls) = 1
        /\ \A c \in SelectCalls :
               /\ Len(calls[c].selection) = Len(sanitized)
               /\ \A i \in 1..Len(sanitized) :
                      calls[c].selection[i] = Projected(sanitized[i], urm, queryAlias)

\* mapGraph projected a path in which two keys with different aliases occur
C7_Witness_Rewrites ==
    /\ op = "mapGraph"
    /\ Len(urm.keys) = 2
    /\ urm.at[1].uniqueAlias # urm.at[2].uniqueAlias
    /\ \E i \in 1..Len(sanitized) :
           Cardinality(MatchingKeys(sanitized[i], urm)) = 2

\* ------------------------------------------------------------ C8
\* C8: two compilations of the same input give maps with the same keys in
\* the same order, the same targetRelation values and the same alias
\* chaining: a binding's aliasedTargetRelation is built on the alias of
\* parent key j in one map exactly when it is in the other, and is the bare
\* targetRelation in one exactly when it is in the other.
ChainedOn(u, i, j) ==
    /\ HasDot(u.keys[i])
    /\ u.keys[j] = ParentOf(u.keys[i])
    /\ u.at[i].aliasedTargetRelation
           = u.at[j].uniqueAlias \o <<Dot>> \o LastSegment(u.keys[i])

Unchained(u, i) == u.at[i].aliasedTargetRelation = u.keys[i]

C8_SameStructure ==
    runs = 2 =>
        /\ urm.keys = urm2.keys
        /\ Len(urm.at) = Len(urm2.at)
        /\ \A i \in 1..Len(urm.keys) :
               /\ urm.at[i].targetRelation = urm2.at[i].targetRelation
               /\ Unchained(urm, i) <=> Unchained(urm2, i)
               /\ \A j \in 1..Len(urm.keys) :
                      ChainedOn(urm, i, j) <=> ChainedOn(urm2, i, j)

\* two compilations that chained a nested relation on its parent's alias
\* and drew different aliases for the parent
C8_Witness_TwoCompilations ==
    /\ runs = 2
    /\ Len(urm.keys) = 2
    /\ ChainedOn(urm, 2, 1)
    /\ urm.at[1].uniqueAlias # urm2.at[1].uniqueAlias

\* ------------------------------------------------------------ C9
\* C9: mapGraph makes one leftJoinAndSelect call per binding, in map order,
\* on the root alias concatenated with targetRelation for a key without '.'
\* and on aliasedTargetRelation for a key with one, each bound to the
\* binding's uniqueAlias; then one select call, the last call; and returns
\* the map the joins were built from. An empty field map gives no join, one
\* select of the empty list and the empty map.
C9_CallSequence ==
    op = "mapGraph" =>
        /\ Len(calls) = Len(urm.keys) + 1
        /\ \A i \in 1..Len(urm.keys) :
               /\ calls[i].method = "leftJoinAndSelect"
               /\ calls[i].alias = urm.at[i].uniqueAlias
               /\ calls[i].target =
                      IF HasDot(urm.keys[i])
                      THEN urm.at[i].aliasedTargetRelation
                      ELSE queryAlias \o urm.at[i].targetRelation
        /\ calls[Len(calls)].method = "select"
        /\ fieldMap = <<>> =>
               /\ calls = <<SelectCall(<<>>)>>
               /\ urm = EmptyUrm

\* mapGraph joined a root relation and a nested one before it selected
C9_Witness_JoinsThenSelect ==
    /\ op = "mapGraph"
    /\ Len(calls) = 3
    /\ ~ HasDot(urm.keys[1])
    /\ HasDot(urm.keys[2])
    /\ calls[3].method = "select"

\* ------------------------------------------------------------ C10
\* C10: every select-list entry names its column through the alias of the
\* path's own relation: a sanitized path with a '.' is projected as the
\* uniqueAlias of the path minus its final segment, '.' and the final
\* segment; a path without '.' as the root alias, '.' and the path.
C10_OwnRelationAlias ==
    op = "mapGraph" =>
        \A c \in SelectCalls : \A i \in 1..Len(sanitized) :
            LET p == sanitized[i]
            IN calls[c].selection[i] =
                   IF HasDot(p)
                   THEN Binding(urm, ParentOf(p)).uniqueAlias \o <<Dot>> \o LastSegment(p)
                   ELSE queryAlias \o <<Dot>> \o p

====
